---- MODULE Spec2Model ----
(***************************************************************************)
(* Model of owtf.error_handler.ErrorHandler (src/owtf/error_handler.py).   *)
(*                                                                         *)
(* Strings are sequences of tokens.  A token is either a character of      *)
(* Alphabet or a literal chunk of text of the source ("Aborted by          *)
(* Framework: ", the padding lines, ...).  Python's None is the one-token  *)
(* sequence None for string-valued things and NoId for a record id.        *)
(*                                                                         *)
(* Every public method is one action.  The action records in `last` what   *)
(* the call was given, what it did to its collaborators (console, logging, *)
(* ErrorStore, lifecycle owner, HTTP) and how it ended (returned a value,  *)
(* raised an exception to its caller, or ended the process).               *)
(***************************************************************************)
EXTENDS Integers, Sequences, FiniteSets, TLC

VARIABLES core, db_error, config, store, exit_status, last

vars == <<core, db_error, config, store, exit_status, last>>

----------------------------------------------------------------------------
(* Bounds *)

MaxLen == 1        \* longest message / partial output, in characters
MaxErrors == 1     \* most records the ErrorStore holds

----------------------------------------------------------------------------
(* Values *)

Marker == "S"                      \* a sensitive character
Alphabet == {Marker}               \* texts are runs of sensitive characters
Redacted == "x"                    \* what the sanitizer puts in its place

None == <<"None">>
False == <<"False">>
NoId == 0
NoExit == {}
EXIT_EARLY == -1
HTTP_CREATED == 201

Str(n) == UNION {[1..k -> Alphabet] : k \in 0..n}
Messages == Str(MaxLen)
Traces == {<<Marker>>}        \* text of the exception being handled
Levels == {"Command", "Plugin", "Framework"}
Types == {"owtf", "user"}
Usernames == {None, <<"u">>}
Titles == {<<"t">>}
Bodies == {None, <<"b">>}
Urls == {<<"url1">>, <<"url2">>}
Statuses == {HTTP_CREATED, 404, 500}

(* What requests.post + request.json() can do: the connection fails, the   *)
(* answer is not JSON, or the answer is a JSON payload.                     *)
Payload(status_code, url) ==
    IF status_code = HTTP_CREATED THEN <<"html_url">> \o url
    ELSE <<"message", "error">>
HttpOutcomes ==
    {[kind |-> "raise", status_code |-> 0, payload |-> None]}
    \cup {[kind |-> "badjson", status_code |-> 500, payload |-> None]}
    \cup {[kind |-> "ok", status_code |-> s, payload |-> Payload(s, u)] :
              s \in Statuses, u \in Urls}
NoHttp == [kind |-> "none", status_code |-> 0, payload |-> None]

HasMarker(s) == \E i \in 1..Len(s) : s[i] = Marker
Contains(hay, needle) ==
    \E i \in 0..(Len(hay) - Len(needle)) :
        \A j \in 1..Len(needle) : hay[i + j] = needle[j]

----------------------------------------------------------------------------
(* Collaborators that live outside error_handler.py *)

\* OutputCleaner.anonymise_command: redacts the sensitive content of a text.
anonymise_command(s) ==
    [i \in 1..Len(s) |-> IF s[i] = Marker THEN Redacted ELSE s[i]]

\* db_error.add(message, trace): appends one unreported record.
db_add(st, message, trace) ==
    Append(st, [message |-> message, trace |-> trace, reported |-> FALSE,
                report_body |-> None, report_url |-> None])

\* db_error.update_after_github_report(id, body, True, url).
update_after_github_report(st, id, body, url) ==
    [i \in 1..Len(st) |->
        IF i = id
        THEN [st[i] EXCEPT !.reported = TRUE, !.report_body = body,
                           !.report_url = url]
        ELSE st[i]]

----------------------------------------------------------------------------
(* The record of the last call *)

Blank ==
    [op |-> "none", message |-> <<>>, trace |-> None, level |-> "",
     partial_output |-> <<>>, type |-> "", username |-> None, title |-> None,
     body |-> None, id |-> NoId, http |-> NoHttp,
     result |-> "none", value |-> None, exc |-> "", exc_arg |-> None,
     console |-> <<>>, logged |-> <<>>, db_adds |-> <<>>, db_updates |-> <<>>,
     http_calls |-> 0, finish_calls |-> 0]

Init ==
    /\ core = None
    /\ db_error = None
    /\ config = None
    /\ store = <<>>
    /\ exit_status = NoExit
    /\ last = Blank

Running == exit_status = NoExit

----------------------------------------------------------------------------
(* ErrorHandler.init *)

init ==
    /\ Running
    /\ core' = <<"core">>
    /\ db_error' = <<"db_error">>
    /\ config' = <<"config">>
    /\ last' = [Blank EXCEPT !.op = "init", !.result = "returned"]
    /\ UNCHANGED <<store, exit_status>>

----------------------------------------------------------------------------
(* ErrorHandler.abort_framework *)

AbortMessage_NoMsg(message) == <<"Aborted by Framework: ">>
AbortMessage(message) == <<"Aborted by Framework: ">> \o message

EarlyAbort_Never == FALSE
EarlyAbort == core = None

abort_framework(message) ==
    /\ Running
    /\ LET msg == AbortMessage(message)
           call == [Blank EXCEPT !.op = "abort_framework",
                                 !.message = message, !.logged = <<msg>>]
       IN IF EarlyAbort
          THEN /\ exit_status' = {EXIT_EARLY}
               /\ last' = [call EXCEPT !.result = "exited", !.exc = "SystemExit"]
          ELSE /\ exit_status' = exit_status
               /\ last' = [call EXCEPT !.finish_calls = 1,
                                       !.result = "returned", !.value = msg]
    /\ UNCHANGED <<core, db_error, config, store>>

----------------------------------------------------------------------------
(* ErrorHandler.user_abort *)

Notice(level) ==
    <<"\nThe ", level,
      " was aborted by the user: Please check the report and plugin output files">>

UserAbortOutcome_ReturnsNothing(level, partial_output) ==
    IF level = "Command"
    THEN [result |-> "raised", exc |-> "PluginAbortException",
          exc_arg |-> partial_output, value |-> None]
    ELSE [result |-> "returned", exc |-> "", exc_arg |-> None, value |-> None]

UserAbortOutcome_DropsOutput(level, partial_output) ==
    IF level = "Command"
    THEN [result |-> "raised", exc |-> "PluginAbortException",
          exc_arg |-> <<>>, value |-> None]
    ELSE [result |-> "returned", exc |-> "", exc_arg |-> None,
          value |-> Notice(level)]

UserAbortOutcome(level, partial_output) ==
    IF level = "Command"
    THEN \* option is the literal 'p': the 'e' branch is never taken
         [result |-> "raised", exc |-> "PluginAbortException",
          exc_arg |-> partial_output, value |-> None]
    ELSE [result |-> "returned", exc |-> "", exc_arg |-> None,
          value |-> Notice(level)]

user_abort(level, partial_output) ==
    /\ Running
    /\ LET o == UserAbortOutcome(level, partial_output)
       IN last' = [Blank EXCEPT !.op = "user_abort", !.level = level,
                                !.partial_output = partial_output,
                                !.logged = <<Notice(level)>>,
                                !.result = o.result, !.exc = o.exc,
                                !.exc_arg = o.exc_arg, !.value = o.value]
    /\ UNCHANGED <<core, db_error, config, store, exit_status>>

----------------------------------------------------------------------------
(* ErrorHandler.log_error *)

Fallback == <<"ERROR: DB is not setup yet: cannot log errors to file!">>

\* Room left in the (bounded) ErrorStore for the append this call would make.
Room(dbFail) == (db_error # None /\ ~dbFail) => Len(store) < MaxErrors

LogErrorOutcome_NoExcept(message, trace, dbFail) ==
    IF db_error = None
    THEN [exc |-> "AttributeError", console |-> <<>>, db_adds |-> <<>>,
          store |-> store]
    ELSE IF dbFail
    THEN [exc |-> "StorageError", console |-> <<>>,
          db_adds |-> <<[message |-> message, trace |-> trace]>>, store |-> store]
    ELSE [exc |-> "", console |-> <<>>,
          db_adds |-> <<[message |-> message, trace |-> trace]>>,
          store |-> db_add(store, message, trace)]

\* What log_error(message, trace) does.  dbFail: db_error.add fails with a
\* storage error, which is not an AttributeError.
LogErrorOutcome(message, trace, dbFail) ==
    IF db_error = None
    THEN \* None.add raises AttributeError, which the except clause catches
         [exc |-> "", console |-> <<Fallback>>, db_adds |-> <<>>,
          store |-> store]
    ELSE IF dbFail
    THEN [exc |-> "StorageError", console |-> <<>>,
          db_adds |-> <<[message |-> message, trace |-> trace]>>, store |-> store]
    ELSE [exc |-> "", console |-> <<>>,
          db_adds |-> <<[message |-> message, trace |-> trace]>>,
          store |-> db_add(store, message, trace)]

Ended(exc) == IF exc = "" THEN "returned" ELSE "raised"

log_error(message, trace, dbFail) ==
    /\ Running
    /\ Room(dbFail)
    /\ LET o == LogErrorOutcome(message, trace, dbFail)
       IN /\ store' = o.store
          /\ last' = [Blank EXCEPT !.op = "log_error", !.message = message,
                                   !.trace = trace, !.console = o.console,
                                   !.db_adds = o.db_adds,
                                   !.result = Ended(o.exc), !.exc = o.exc]
    /\ UNCHANGED <<core, db_error, config, exit_status>>

----------------------------------------------------------------------------
(* ErrorHandler.add_new_bug and ErrorHandler.add *)

padding == <<"\n", "____", "\n\n">>
sub_padding == <<"\n", "****", "\n">>

BugOutput(message, err_trace) ==
    <<"OWTF BUG: Please report the sanitised information below to help make this better.Thank you">>
    \o <<"\nMessage: ">> \o message \o <<"\n">>
    \o <<"\nError Trace:">>
    \o <<"\n">> \o err_trace
    \o <<"\n">> \o padding

\* What add_new_bug(message) does while exc_trace is the formatted traceback
\* of the exception being handled.
AddNewBugOutcome(message, exc_trace, dbFail) ==
    LET err_trace == anonymise_command(exc_trace)
        clean == anonymise_command(message)
        o == LogErrorOutcome(clean, err_trace, dbFail)
    IN [o EXCEPT !.console = <<BugOutput(clean, err_trace)>> \o o.console]

\* What add(message, type) does.
AddOutcome(message, type, exc_trace, dbFail) ==
    IF type = "owtf"
    THEN AddNewBugOutcome(message, exc_trace, dbFail)
    ELSE LET o == LogErrorOutcome(message, None, dbFail)
         IN [o EXCEPT !.console =
                 <<padding \o message \o sub_padding>> \o o.console]

add_new_bug(message, exc_trace, dbFail) ==
    /\ Running
    /\ Room(dbFail)
    /\ LET o == AddNewBugOutcome(message, exc_trace, dbFail)
       IN /\ store' = o.store
          /\ last' = [Blank EXCEPT !.op = "add_new_bug", !.message = message,
                                   !.trace = exc_trace, !.console = o.console,
                                   !.db_adds = o.db_adds,
                                   !.result = Ended(o.exc), !.exc = o.exc]
    /\ UNCHANGED <<core, db_error, config, exit_status>>

add(message, type, exc_trace, dbFail) ==
    /\ Running
    /\ Room(dbFail)
    /\ LET o == AddOutcome(message, type, exc_trace, dbFail)
       IN /\ store' = o.store
          /\ last' = [Blank EXCEPT !.op = "add", !.message = message,
                                   !.type = type, !.trace = exc_trace,
                                   !.console = o.console,
                                   !.db_adds = o.db_adds,
                                   !.result = Ended(o.exc), !.exc = o.exc]
    /\ UNCHANGED <<core, db_error, config, exit_status>>

----------------------------------------------------------------------------
(* ErrorHandler.add_github_issue *)

MissingArgs_IdOnly(username, id) == id = NoId
MissingArgs(username, id) == id = NoId \/ username = None

IsCreated_AnyBut404(status_code) == status_code # 404
IsCreated(status_code) == status_code = HTTP_CREATED

Attributed(body, username) == body \o <<"\n\nSubmitted By - @">> \o username

\* The html_url member of a decoded 201 payload.
HtmlUrl(payload) == SubSeq(payload, 2, Len(payload))

\* What add_github_issue does; http is what the tracker does when asked.
IssueOutcome(username, title, body, id, http) ==
    LET o == [result |-> "returned", value |-> None, exc |-> "",
              http_calls |-> 0, db_updates |-> <<>>, store |-> store]
    IN IF MissingArgs(username, id)
       THEN [o EXCEPT !.value = False]
       ELSE IF body = None
       THEN \* None += str
            [o EXCEPT !.result = "raised", !.exc = "TypeError"]
       ELSE IF config = None
       THEN \* None.get_val
            [o EXCEPT !.result = "raised", !.exc = "AttributeError"]
       ELSE IF http.kind = "raise"
       THEN [o EXCEPT !.result = "raised", !.exc = "ConnectionError",
                      !.http_calls = 1]
       ELSE IF http.kind = "badjson"
       THEN [o EXCEPT !.result = "raised", !.exc = "ValueError",
                      !.http_calls = 1]
       ELSE IF IsCreated(http.status_code)
       THEN [o EXCEPT !.value = http.payload, !.http_calls = 1,
                      !.db_updates = <<[id |-> id, url |-> HtmlUrl(http.payload)]>>,
                      !.store = update_after_github_report(
                                    store, id, Attributed(body, username),
                                    HtmlUrl(http.payload))]
       ELSE [o EXCEPT !.value = http.payload, !.http_calls = 1]

add_github_issue(username, title, body, id, http) ==
    /\ Running
    /\ LET o == IssueOutcome(username, title, body, id, http)
       IN /\ store' = o.store
          /\ last' = [Blank EXCEPT !.op = "add_github_issue",
                                   !.username = username, !.title = title,
                                   !.body = body, !.id = id,
                                   !.http = IF o.http_calls = 0 THEN NoHttp
                                            ELSE http,
                                   !.result = o.result, !.value = o.value,
                                   !.exc = o.exc,
                                   !.http_calls = o.http_calls,
                                   !.db_updates = o.db_updates]
    /\ UNCHANGED <<core, db_error, config, exit_status>>

----------------------------------------------------------------------------

\* db_error.add can only fail with a storage error where there is a store.
StoreFails == IF db_error = None THEN {FALSE} ELSE BOOLEAN

\* The tracker only answers a request that is made (lines 180-190).
RequestMade(username, body, id) ==
    ~MissingArgs(username, id) /\ body # None /\ config # None
HttpFor(username, body, id) ==
    IF RequestMade(username, body, id) THEN HttpOutcomes ELSE {NoHttp}

Next ==
    \/ init
    \/ \E message \in Messages : abort_framework(message)
    \/ \E level \in Levels, partial_output \in Messages :
           user_abort(level, partial_output)
    \/ \E message \in Messages, trace \in Traces \cup {None}, dbFail \in StoreFails :
           log_error(message, trace, dbFail)
    \/ \E message \in Messages, exc_trace \in Traces, dbFail \in StoreFails :
           add_new_bug(message, exc_trace, dbFail)
    \/ \E message \in Messages, type \in Types, exc_trace \in Traces,
          dbFail \in StoreFails :
           add(message, type, exc_trace, dbFail)
    \/ \E username \in Usernames, title \in Titles, body \in Bodies,
          id \in {NoId} \cup (1..Len(store)) :
           \E http \in HttpFor(username, body, id) :
               add_github_issue(username, title, body, id, http)

Spec == Init /\ [][Next]_vars

----------------------------------------------------------------------------
(* Properties *)

Reporting == {"log_error", "add_new_bug", "add"}

\* C1: whatever add (of any type) or add_new_bug hands to db_error.add, the
\* message and the trace, contains no sensitive marker.
C1_WritesAreSanitized ==
    last.op \in {"add", "add_new_bug"} =>
        \A k \in 1..Len(last.db_adds) :
            /\ ~HasMarker(last.db_adds[k].message)
            /\ ~HasMarker(last.db_adds[k].trace)

\* C2: no failure of the ErrorStore append and no failure of the tracker's
\* HTTP call or of decoding its answer reaches the caller as an exception.
C2_PipelineFailuresNeverRaise ==
    last.op \in Reporting \cup {"add_github_issue"} =>
        last.exc \notin {"StorageError", "ConnectionError", "ValueError"}

\* C3: update_after_github_report is invoked only for a record that is not
\* yet reported (so at most once per record id), and only when the tracker
\* answered 201.
C3_ReportedAtMostOnce ==
    [][last'.op = "add_github_issue" =>
          \A k \in 1..Len(last'.db_updates) :
              /\ last'.http.status_code = HTTP_CREATED
              /\ ~store[last'.db_updates[k].id].reported]_vars

\* C4: with id and username present and an answer from the tracker, a 201
\* marks exactly that record reported with the answer's html_url, any other
\* status leaves the store untouched, and the payload is returned either way.
C4_Step ==
    (/\ last'.op = "add_github_issue"
     /\ last'.http.kind = "ok") =>
        /\ last'.id # NoId /\ last'.username # None
        /\ last'.result = "returned"
        /\ last'.value = last'.http.payload
        /\ IF last'.http.status_code = HTTP_CREATED
           THEN /\ last'.db_updates =
                       <<[id |-> last'.id, url |-> HtmlUrl(last'.http.payload)]>>
                /\ store'[last'.id].reported
                /\ store'[last'.id].report_url = HtmlUrl(last'.http.payload)
                /\ \A i \in 1..Len(store) : i # last'.id => store'[i] = store[i]
           ELSE /\ last'.db_updates = <<>>
                /\ store' = store
C4_MarkReportedOn201Only == [][C4_Step]_vars

C4_Witness ==
    /\ last.op = "add_github_issue"
    /\ last.http.kind = "ok"
    /\ last.http.status_code = HTTP_CREATED
    /\ store[last.id].report_url = <<"url2">>

\* C5: without a username or without a record id, add_github_issue returns
\* False, makes no HTTP call and leaves the ErrorStore alone.
C5_Step ==
    (/\ last'.op = "add_github_issue"
     /\ (last'.username = None \/ last'.id = NoId)) =>
        /\ last'.result = "returned"
        /\ last'.value = False
        /\ last'.http_calls = 0
        /\ last'.db_updates = <<>>
        /\ store' = store
C5_MissingArgsNoCall == [][C5_Step]_vars

C5_Witness ==
    /\ last.op = "add_github_issue"
    /\ last.username = None
    /\ last.id # NoId
    /\ last.body # None
    /\ config # None
    /\ last.value = False

\* C6: abort_framework before init ends the process with status -1, returns
\* nothing, and calls neither the ErrorStore nor finish().
C6_EarlyAbortExits ==
    (last.op = "abort_framework" /\ core = None) =>
        /\ last.result = "exited"
        /\ exit_status = {EXIT_EARLY}
        /\ last.value = None
        /\ last.finish_calls = 0
        /\ last.db_adds = <<>>
        /\ last.db_updates = <<>>
        /\ store = <<>>

C6_Witness ==
    /\ last.op = "abort_framework"
    /\ core = None
    /\ last.message # <<>>
    /\ exit_status = {EXIT_EARLY}

\* C7: abort_framework with a lifecycle owner calls finish() once, does not
\* end the process, and returns a string that contains the given message.
C7_AbortCallsFinishOnce ==
    (last.op = "abort_framework" /\ core # None) =>
        /\ last.finish_calls = 1
        /\ last.result = "returned"
        /\ exit_status = NoExit
        /\ Contains(last.value, last.message)
        /\ Len(last.value) > Len(last.message)

C7_Witness ==
    /\ last.op = "abort_framework"
    /\ core # None
    /\ Len(last.message) = MaxLen
    /\ last.result = "returned"

C9_SignalCarriesPartialOutput ==
    (last.op = "user_abort" /\ last.level = "Command") =>
        /\ last.result = "raised"
        /\ last.exc \in {"PluginAbortException", "FrameworkAbortException"}
        /\ last.exc_arg = last.partial_output

C9_Witness ==
    /\ last.op = "user_abort"
    /\ last.level = "Command"
    /\ last.result = "raised"
    /\ Len(last.partial_output) = MaxLen

\* C10: while db_error is None, log_error (called directly, through add or
\* through add_new_bug) returns normally and prints the fallback notice.
C10_NoStoreFallsBackToConsole ==
    (last.op \in Reporting /\ db_error = None) =>
        /\ last.result = "returned"
        /\ last.console # <<>>
        /\ last.console[Len(last.console)] = Fallback
        /\ last.db_adds = <<>>
        /\ store = <<>>

C10_Witness ==
    /\ last.op = "add"
    /\ last.type = "owtf"
    /\ db_error = None
    /\ HasMarker(last.message)
    /\ last.console[Len(last.console)] = Fallback

====
